---- MODULE Spec2Model ----
(***************************************************************************)
(* Model of tools/github/commit_ai.py: a sequential script that loads a    *)
(* KEY=VALUE file into the environment, asks git for the staged changes,   *)
(* asks a chat-completion API for a commit subject, confirms with the user *)
(* and runs git commit (and git push).                                     *)
(*                                                                         *)
(* Text is a sequence of one-character strings, so that str.strip,         *)
(* str.splitlines, slicing and len are computed as Python computes them.   *)
(***************************************************************************)
EXTENDS Integers, Sequences, FiniteSets, TLC

VARIABLES
    pc,           \* position of main (or of the function under test)
    args,         \* argparse namespace: yes, push, stage_all, max_diff_chars
    envfile,      \* the file at args.env: [exists, text]
    environ,      \* os.environ: function from the present keys to values
    environ0,     \* os.environ as it was when the process started
    base_url, api_key, model, temperature,   \* settings read by main
    status,       \* _get_status(root)
    stat,         \* _get_stat(root)
    raw_diff,     \* stdout of git diff --cached
    diff,         \* _get_staged_diff(root, max_chars)
    resp,         \* outcome of the HTTP exchange
    extracted,    \* outcome of _extract_commit_subject(resp)
    subject,      \* the local `subject` of main
    proposed,     \* what was printed under "Proposed commit message:"
    ans,          \* the line read by input(), as typed
    calls,        \* subprocess and network calls issued so far, in order
    exit_code,    \* process exit status, NoExit while running
    error         \* the exception that ended the run, "" if none

vars == <<pc, args, envfile, environ, environ0, base_url, api_key, model,
          temperature, status, stat, raw_diff, diff, resp, extracted,
          subject, proposed, ans, calls, exit_code, error>>

(***************************************************************************)
(* Bounds of the model.                                                    *)
(***************************************************************************)
MaxDiffLen == 3      \* longest raw diff drawn for _get_staged_diff alone
MaxFileLen == 5      \* longest config file text drawn for _load_env alone
MaxAffixLen == 2     \* longest prefix/suffix around the padded content
PadSlack == 2        \* pad lengths reach MaxSubjectLen +/- PadSlack
MaxAnsPad == 1       \* blanks typed before and after the answer

(***************************************************************************)
(* Program constants.                                                      *)
(***************************************************************************)
MaxSubjectLen == 120
DefaultMaxDiffChars == 12000
NoExit == -1

(***************************************************************************)
(* Python string operations on sequences of characters.                    *)
(***************************************************************************)
Whitespace == {" ", "\t", "\n"}
LineBreaks == {"\n"}
Digits == {"0", "1", "2", "3", "4", "5", "6", "7", "8", "9"}

\* s[:n]
Slice(s, n) ==
    IF n >= 0
    THEN SubSeq(s, 1, IF n < Len(s) THEN n ELSE Len(s))
    ELSE SubSeq(s, 1, IF Len(s) + n > 0 THEN Len(s) + n ELSE 0)

\* s.lstrip(chars)
RECURSIVE LStrip(_, _)
LStrip(s, chars) ==
    IF s # <<>> /\ Head(s) \in chars THEN LStrip(Tail(s), chars) ELSE s

\* s.rstrip(chars)
RECURSIVE RStrip(_, _)
RStrip(s, chars) ==
    IF s # <<>> /\ s[Len(s)] \in chars
    THEN RStrip(SubSeq(s, 1, Len(s) - 1), chars)
    ELSE s

\* s.strip(chars); s.strip() is Strip(s, Whitespace)
Strip(s, chars) == RStrip(LStrip(s, chars), chars)

\* s.find(c) + 1: position of the first c in s, 0 if none
Find(s, cs) ==
    IF \E i \in 1..Len(s) : s[i] \in cs
    THEN CHOOSE i \in 1..Len(s) :
            s[i] \in cs /\ \A j \in 1..(i - 1) : s[j] \notin cs
    ELSE 0

\* s.splitlines()
RECURSIVE SplitLines(_)
SplitLines(s) ==
    IF s = <<>> THEN <<>>
    ELSE LET i == Find(s, LineBreaks) IN
         IF i = 0 THEN <<s>>
         ELSE <<SubSeq(s, 1, i - 1)>> \o SplitLines(SubSeq(s, i + 1, Len(s)))

\* c.lower() for the letters the answers are typed with
LowerChar(c) ==
    CASE c = "Y" -> "y"
      [] c = "E" -> "e"
      [] c = "S" -> "s"
      [] c = "N" -> "n"
      [] c = "O" -> "o"
      [] OTHER -> c

\* s.lower()
Lower(s) == [i \in 1..Len(s) |-> LowerChar(s[i])]

\* float(s) succeeds: sign, digits and one optional point. The exponent,
\* inf and nan forms need letters that no drawn setting contains.
IsFloat(s) ==
    LET t == Strip(s, Whitespace)
        u == IF t # <<>> /\ Head(t) \in {"+", "-"} THEN Tail(t) ELSE t
    IN  /\ u # <<>>
        /\ \A i \in 1..Len(u) : u[i] \in Digits \cup {"."}
        /\ \E i \in 1..Len(u) : u[i] \in Digits
        /\ Cardinality({i \in 1..Len(u) : u[i] = "."}) <= 1

\* all texts over an alphabet up to a length
RECURSIVE Texts(_, _)
Texts(alphabet, n) ==
    IF n = 0 THEN {<<>>}
    ELSE LET shorter == Texts(alphabet, n - 1) IN
         shorter \cup {Append(t, c) : t \in shorter, c \in alphabet}

\* n copies of c
Pad(c, n) == [i \in 1..n |-> c]

(***************************************************************************)
(* _load_env                                                               *)
(***************************************************************************)
NoVars == [k \in {} |-> <<>>]

SetEnv(env, k, v) ==
    [x \in DOMAIN env \cup {k} |-> IF x = k THEN v ELSE env[x]]

\* variant: the assignment without the `k not in os.environ` test
LoadEnvLine_Overrides(env, raw_line) ==
    LET line == Strip(raw_line, Whitespace) IN
    IF line = <<>> \/ Head(line) = "#" THEN env
    ELSE LET i == Find(line, {"="}) IN
         IF i = 0 THEN env
         ELSE LET k == Strip(SubSeq(line, 1, i - 1), Whitespace)
                  v == Strip(Strip(Strip(SubSeq(line, i + 1, Len(line)),
                                         Whitespace), {"\""}), {"'"})
              IN  IF k # <<>>
                  THEN SetEnv(env, k, v)
                  ELSE env

\* the body of the for loop, for one raw line
LoadEnvLine(env, raw_line) ==
    LET line == Strip(raw_line, Whitespace) IN
    IF line = <<>> \/ Head(line) = "#" THEN env
    ELSE LET i == Find(line, {"="}) IN
         IF i = 0 THEN env
         ELSE LET k == Strip(SubSeq(line, 1, i - 1), Whitespace)
                  v == Strip(Strip(Strip(SubSeq(line, i + 1, Len(line)),
                                         Whitespace), {"\""}), {"'"})
              IN  IF k # <<>> /\ k \notin DOMAIN env
                  THEN SetEnv(env, k, v)
                  ELSE env

RECURSIVE LoadEnvLines(_, _)
LoadEnvLines(env, lines) ==
    IF lines = <<>> THEN env
    ELSE LoadEnvLines(LoadEnvLine(env, Head(lines)), Tail(lines))

LoadEnv(env, file) ==
    IF ~file.exists THEN env
    ELSE LoadEnvLines(env, SplitLines(file.text))

\* os.environ.get(k, default)
EnvGet(env, k, default) == IF k \in DOMAIN env THEN env[k] ELSE default

(***************************************************************************)
(* _get_staged_diff                                                        *)
(***************************************************************************)
TruncationMarker ==
    <<"\n", "\n", "[", "d", "i", "f", "f", " ",
      "t", "r", "u", "n", "c", "a", "t", "e", "d", "]", "\n">>

GetStagedDiff(git_stdout, max_chars) ==
    IF Len(git_stdout) <= max_chars
    THEN git_stdout
    ELSE Slice(git_stdout, max_chars) \o TruncationMarker

(***************************************************************************)
(* _extract_commit_subject                                                 *)
(*                                                                         *)
(* A decoded response body is a record; a JSON value at                    *)
(* choices[0].message.content is [type, s]: a string, null or a number.    *)
(***************************************************************************)
JStr(s) == [type |-> "str", s |-> s]
JNull == [type |-> "null", s |-> <<>>]
JNum(d) == [type |-> "num", s |-> <<d>>]

\* resp["choices"][0]["message"]["content"] does not raise
HasContent(body) ==
    /\ "choices" \in DOMAIN body
    /\ Len(body.choices) >= 1
    /\ "message" \in DOMAIN body.choices[1]
    /\ "content" \in DOMAIN body.choices[1].message

Content(body) == body.choices[1].message.content

\* Python truthiness of msg in (msg or "")
Truthy(j) ==
    CASE j.type = "str" -> j.s # <<>>
      [] j.type = "null" -> FALSE
      [] OTHER -> j.s # <<"0">>

Returned(s) == [error |-> "", text |-> "", subject |-> s]
Raised(e, t) == [error |-> e, text |-> t, subject |-> <<>>]

ExtractCommitSubject(body) ==
    IF ~HasContent(body)
    THEN Raised("RuntimeError", "Unexpected AI response")
    ELSE LET msg == Content(body) IN
         IF Truthy(msg) /\ msg.type # "str"
         THEN Raised("AttributeError", "no attribute strip")
         ELSE LET text == IF Truthy(msg) THEN msg.s ELSE <<>>
                  lines == SplitLines(Strip(text, Whitespace))
              IN  IF lines = <<>>
                  THEN Raised("IndexError", "list index out of range")
                  ELSE LET first == Strip(lines[1], Whitespace)
                           unquoted == Strip(Strip(first, {"\""}), {"'"})
                       IN  IF unquoted = <<>>
                           THEN Raised("RuntimeError",
                                       "AI returned an empty commit message.")
                           ELSE IF Len(unquoted) > MaxSubjectLen
                           THEN Returned(RStrip(Slice(unquoted, MaxSubjectLen),
                                                Whitespace))
                           ELSE Returned(unquoted)

(***************************************************************************)
(* Inputs of main.                                                         *)
(***************************************************************************)
AI_BASE_URL == <<"A", "I", "_", "B", "A", "S", "E", "_", "U", "R", "L">>
AI_API_KEY == <<"A", "I", "_", "A", "P", "I", "_", "K", "E", "Y">>
AI_MODEL == <<"A", "I", "_", "M", "O", "D", "E", "L">>
AI_TEMPERATURE == <<"A", "I", "_", "T", "E", "M", "P", "E", "R", "A", "T", "U", "R", "E">>
DefaultModel == <<"g", "p", "t", "-", "4", "o", "-", "m", "i", "n", "i">>
DefaultTemperature == <<"0", ".", "2">>

\* an option is <<>> (the key is absent) or <<v>> (the key has value v)
EnvOf(u, k, m, t) ==
    LET opt == [x \in {AI_BASE_URL, AI_API_KEY, AI_MODEL, AI_TEMPERATURE} |->
                   CASE x = AI_BASE_URL -> u
                     [] x = AI_API_KEY -> k
                     [] x = AI_MODEL -> m
                     [] OTHER -> t]
    IN  [x \in {y \in DOMAIN opt : opt[y] # <<>>} |-> opt[x][1]]

MainEnvs ==
    {EnvOf(u, k, m, t) :
        u \in {<<>>, <<<<" ">>>>, <<<<"u">>>>},
        k \in {<<>>, <<<<>>>>, <<<<"k">>>>},
        m \in {<<>>, <<<<"m">>>>},
        t \in {<<>>, <<<<>>>>, <<<<"0", ".", "5">>>>, <<<<"x">>>>}}

ConfigLine(k, v) == k \o <<"=">> \o v \o <<"\n">>

MainFiles ==
    { [exists |-> FALSE, text |-> <<>>],
      [exists |-> TRUE,
       text |-> <<"#", "c", "\n">> \o ConfigLine(AI_BASE_URL, <<"\"", "w", "\"">>)
                \o ConfigLine(AI_API_KEY, <<" ", "j">>)],
      [exists |-> TRUE, text |-> ConfigLine(AI_TEMPERATURE, <<"h">>)] }

MainArgs ==
    [yes : BOOLEAN, push : BOOLEAN, stage_all : BOOLEAN,
     max_diff_chars : {-1, 0, 1, DefaultMaxDiffChars}]

StatusOutputs == {<<>>, <<"\n">>, <<" ", "M", " ", "f", "\n">>}
StatOutputs == {<<" ", "f", " ", "|", " ", "1", "\n">>}
DiffOutputs == {<<>>, <<"\n">>, <<"d", "\n">>, <<"d", "d", "\n">>}

Body(content) == [choices |-> <<[message |-> [content |-> content]]>>]

LongBlankContent ==
    <<"\"">> \o Pad(" ", MaxSubjectLen) \o <<"x", "\"">>

MainBodies ==
    { [error |-> "unauthorized"],
      [choices |-> <<>>],
      [choices |-> <<[message |-> [role |-> "assistant"]]>>],
      Body(JNull), Body(JNum("7")), Body(JStr(<<>>)), Body(JStr(<<" ", "\n">>)),
      Body(JStr(<<"\"", "\"">>)),
      Body(JStr(<<"f", "i", "x", "\n", "b">>)),
      Body(JStr(<<"'", "\"", "f", "\"", "'">>)),
      Body(JStr(LongBlankContent)) }

NoBody == [none |-> TRUE]

HttpOutcomes ==
    {[kind |-> "response", code |-> c, parses |-> TRUE, body |-> b] :
        c \in {200}, b \in MainBodies}
    \cup {[kind |-> "response", code |-> c, parses |-> TRUE, body |-> NoBody] :
        c \in {401, 500}}
    \cup {[kind |-> "response", code |-> 200, parses |-> FALSE, body |-> NoBody],
          [kind |-> "unreachable", code |-> 0, parses |-> FALSE, body |-> NoBody]}

NoResp == [kind |-> "none", code |-> 0, parses |-> FALSE, body |-> NoBody]
NotCalled == [error |-> "", text |-> "not called", subject |-> <<>>]

AnswerWords ==
    { <<>>, <<"y">>, <<"Y">>, <<"y", "e", "s">>, <<"Y", "E", "s">>,
      <<"n">>, <<"n", "o">>, <<"y", "e">>, <<"y", "y">> }

Answers ==
    {Pad(" ", l) \o w \o Pad(" ", r) :
        w \in AnswerWords, l \in 0..MaxAnsPad, r \in 0..MaxAnsPad}

Affirmative == {<<"y">>, <<"y", "e", "s">>}

(***************************************************************************)
(* main                                                                    *)
(***************************************************************************)
Call(cmd, arg, ok) == [cmd |-> cmd, arg |-> arg, ok |-> ok]

Init ==
    /\ pc = "load_env"
    /\ args \in MainArgs
    /\ envfile \in MainFiles
    /\ environ \in MainEnvs
    /\ environ0 = environ
    /\ base_url = <<>> /\ api_key = <<>> /\ model = <<>> /\ temperature = <<>>
    /\ status = <<>> /\ stat = <<>> /\ raw_diff = <<>> /\ diff = <<>>
    /\ resp = NoResp
    /\ extracted = NotCalled
    /\ subject = <<>> /\ proposed = <<>> /\ ans = <<>>
    /\ calls = <<>>
    /\ exit_code = NoExit
    /\ error = ""

\* return code from main
Return(code) ==
    /\ pc' = "done"
    /\ exit_code' = code
    /\ error' = ""

\* an exception leaves main: the interpreter prints it and exits 1
Raise(e) ==
    /\ pc' = "done"
    /\ exit_code' = 1
    /\ error' = e

Goto(label) ==
    /\ pc' = label
    /\ UNCHANGED <<exit_code, error>>

\* line 143
LoadEnvStep ==
    /\ pc = "load_env"
    /\ environ' = LoadEnv(environ, envfile)
    /\ Goto("settings")
    /\ UNCHANGED <<args, envfile, environ0, base_url, api_key, model,
                   temperature, status, stat, raw_diff, diff, resp, extracted,
                   subject, proposed, ans, calls>>

\* lines 145-155
ReadSettings ==
    /\ pc = "settings"
    /\ LET u == Strip(EnvGet(environ, AI_BASE_URL, <<>>), Whitespace)
           k == Strip(EnvGet(environ, AI_API_KEY, <<>>), Whitespace)
           m == Strip(EnvGet(environ, AI_MODEL, <<>>), Whitespace)
           t == EnvGet(environ, AI_TEMPERATURE, DefaultTemperature)
       IN  /\ base_url' = u
           /\ api_key' = k
           /\ model' = IF m = <<>> THEN DefaultModel ELSE m
           /\ IF t # <<>> /\ ~IsFloat(t)
              THEN /\ temperature' = <<>>
                   /\ Raise("ValueError")
              ELSE /\ temperature' = IF t = <<>> THEN DefaultTemperature
                                     ELSE Strip(t, Whitespace)
                   /\ IF u = <<>> \/ k = <<>>
                      THEN Return(2)
                      ELSE Goto("repo_root")
    /\ UNCHANGED <<args, envfile, environ, environ0, status, stat, raw_diff,
                   diff, resp, extracted, subject, proposed, ans, calls>>

\* line 157
RepoRoot ==
    /\ pc = "repo_root"
    /\ \E ok \in BOOLEAN :
          /\ calls' = Append(calls, Call("git rev-parse", <<>>, ok))
          /\ IF ok THEN Goto("stage_all") ELSE Raise("RuntimeError")
    /\ UNCHANGED <<args, envfile, environ, environ0, base_url, api_key, model,
                   temperature, status, stat, raw_diff, diff, resp, extracted,
                   subject, proposed, ans>>

\* lines 159-160
StageAll ==
    /\ pc = "stage_all"
    /\ IF args.stage_all
       THEN \E ok \in BOOLEAN :
               /\ calls' = Append(calls, Call("git add", <<>>, ok))
               /\ IF ok THEN Goto("status") ELSE Raise("RuntimeError")
       ELSE /\ calls' = calls
            /\ Goto("status")
    /\ UNCHANGED <<args, envfile, environ, environ0, base_url, api_key, model,
                   temperature, status, stat, raw_diff, diff, resp, extracted,
                   subject, proposed, ans>>

\* variant: the empty status is not tested
GetStatus_NoShortCircuit ==
    /\ pc = "status"
    /\ \E ok \in BOOLEAN, out \in StatusOutputs :
          /\ calls' = Append(calls, Call("git status", <<>>, ok))
          /\ IF ~ok
             THEN /\ status' = status
                  /\ Raise("RuntimeError")
             ELSE /\ status' = Strip(out, Whitespace)
                  /\ Goto("stat")
    /\ UNCHANGED <<args, envfile, environ, environ0, base_url, api_key, model,
                   temperature, stat, raw_diff, diff, resp, extracted,
                   subject, proposed, ans>>

\* lines 162-165
GetStatus ==
    /\ pc = "status"
    /\ \E ok \in BOOLEAN, out \in StatusOutputs :
          /\ calls' = Append(calls, Call("git status", <<>>, ok))
          /\ IF ~ok
             THEN /\ status' = status
                  /\ Raise("RuntimeError")
             ELSE /\ status' = Strip(out, Whitespace)
                  /\ IF status' = <<>> THEN Return(0) ELSE Goto("stat")
    /\ UNCHANGED <<args, envfile, environ, environ0, base_url, api_key, model,
                   temperature, stat, raw_diff, diff, resp, extracted,
                   subject, proposed, ans>>

\* line 167
GetStat ==
    /\ pc = "stat"
    /\ \E ok \in BOOLEAN, out \in StatOutputs :
          /\ calls' = Append(calls, Call("git diff --stat", <<>>, ok))
          /\ IF ~ok
             THEN /\ stat' = stat
                  /\ Raise("RuntimeError")
             ELSE /\ stat' = Strip(out, Whitespace)
                  /\ Goto("diff")
    /\ UNCHANGED <<args, envfile, environ, environ0, base_url, api_key, model,
                   temperature, status, raw_diff, diff, resp, extracted,
                   subject, proposed, ans>>

\* lines 168-175
StagedDiff ==
    /\ pc = "diff"
    /\ \E ok \in BOOLEAN, out \in DiffOutputs :
          /\ calls' = Append(calls, Call("git diff", <<>>, ok))
          /\ IF ~ok
             THEN /\ UNCHANGED <<raw_diff, diff>>
                  /\ Raise("RuntimeError")
             ELSE /\ raw_diff' = out
                  /\ diff' = GetStagedDiff(out, args.max_diff_chars)
                  /\ IF Strip(diff', Whitespace) = <<>>
                     THEN Return(2)
                     ELSE Goto("request")
    /\ UNCHANGED <<args, envfile, environ, environ0, base_url, api_key, model,
                   temperature, status, stat, resp, extracted,
                   subject, proposed, ans>>

\* variant: an HTTP error status is not raised, its body is handed on
ChatCompletion_IgnoresHttpError ==
    /\ pc = "request"
    /\ \E r \in HttpOutcomes :
          /\ resp' = r
          /\ calls' = Append(calls, Call("POST /v1/chat/completions", <<>>,
                                         r.kind = "response" /\ r.code = 200))
          /\ CASE r.kind = "unreachable" -> Raise("URLError")
               [] r.kind = "response" /\ 200 <= r.code /\ r.code < 300
                  /\ ~r.parses -> Raise("JSONDecodeError")
               [] OTHER -> Goto("extract")
    /\ UNCHANGED <<args, envfile, environ, environ0, base_url, api_key, model,
                   temperature, status, stat, raw_diff, diff, extracted,
                   subject, proposed, ans>>

\* line 209 and _openai_chat_completion, lines 58-76
ChatCompletion ==
    /\ pc = "request"
    /\ \E r \in HttpOutcomes :
          /\ resp' = r
          /\ calls' = Append(calls, Call("POST /v1/chat/completions", <<>>,
                                         r.kind = "response" /\ r.code = 200))
          /\ CASE r.kind = "unreachable" -> Raise("URLError")
               [] r.kind = "response" /\ ~(200 <= r.code /\ r.code < 300) ->
                     Raise("RuntimeError")
               [] r.kind = "response" /\ 200 <= r.code /\ r.code < 300
                  /\ ~r.parses -> Raise("JSONDecodeError")
               [] OTHER -> Goto("extract")
    /\ UNCHANGED <<args, envfile, environ, environ0, base_url, api_key, model,
                   temperature, status, stat, raw_diff, diff, extracted,
                   subject, proposed, ans>>

\* lines 210-214
ExtractAndPropose ==
    /\ pc = "extract"
    /\ extracted' = ExtractCommitSubject(resp.body)
    /\ IF extracted'.error # ""
       THEN /\ UNCHANGED <<subject, proposed>>
            /\ Raise(extracted'.error)
       ELSE /\ subject' = extracted'.subject
            /\ proposed' = subject'
            /\ Goto("confirm")
    /\ UNCHANGED <<args, envfile, environ, environ0, base_url, api_key, model,
                   temperature, status, stat, raw_diff, diff, resp,
                   ans, calls>>

\* variant: an empty answer counts as yes
Confirm_DefaultYes ==
    /\ pc = "confirm"
    /\ IF args.yes
       THEN /\ ans' = ans
            /\ Goto("commit")
       ELSE \/ \E line \in Answers :
                  /\ ans' = <<line>>
                  /\ IF Lower(Strip(line, Whitespace)) \notin Affirmative \cup {<<>>}
                     THEN Return(1)
                     ELSE Goto("commit")
            \/ /\ ans' = ans
               /\ Raise("EOFError")
    /\ UNCHANGED <<args, envfile, environ, environ0, base_url, api_key, model,
                   temperature, status, stat, raw_diff, diff, resp, extracted,
                   subject, proposed, calls>>

\* lines 216-220; ans is <<>> until a line is read, then <<line>>
Confirm ==
    /\ pc = "confirm"
    /\ IF args.yes
       THEN /\ ans' = ans
            /\ Goto("commit")
       ELSE \/ \E line \in Answers :
                  /\ ans' = <<line>>
                  /\ IF Lower(Strip(line, Whitespace)) \notin Affirmative
                     THEN Return(1)
                     ELSE Goto("commit")
            \/ /\ ans' = ans
               /\ Raise("EOFError")
    /\ UNCHANGED <<args, envfile, environ, environ0, base_url, api_key, model,
                   temperature, status, stat, raw_diff, diff, resp, extracted,
                   subject, proposed, calls>>

\* lines 222-223
Commit ==
    /\ pc = "commit"
    /\ \E ok \in BOOLEAN :
          /\ calls' = Append(calls, Call("git commit", subject, ok))
          /\ IF ok THEN Goto("push") ELSE Raise("RuntimeError")
    /\ UNCHANGED <<args, envfile, environ, environ0, base_url, api_key, model,
                   temperature, status, stat, raw_diff, diff, resp, extracted,
                   subject, proposed, ans>>

\* variant: the push does not look at args.push
Push_Always ==
    /\ pc = "push"
    /\ \E ok \in BOOLEAN :
          /\ calls' = Append(calls, Call("git push", <<>>, ok))
          /\ IF ok THEN Return(0) ELSE Raise("RuntimeError")
    /\ UNCHANGED <<args, envfile, environ, environ0, base_url, api_key, model,
                   temperature, status, stat, raw_diff, diff, resp, extracted,
                   subject, proposed, ans>>

\* lines 225-229
Push ==
    /\ pc = "push"
    /\ IF args.push
       THEN \E ok \in BOOLEAN :
               /\ calls' = Append(calls, Call("git push", <<>>, ok))
               /\ IF ok THEN Return(0) ELSE Raise("RuntimeError")
       ELSE /\ calls' = calls
            /\ Return(0)
    /\ UNCHANGED <<args, envfile, environ, environ0, base_url, api_key, model,
                   temperature, status, stat, raw_diff, diff, resp, extracted,
                   subject, proposed, ans>>

Next ==
    \/ LoadEnvStep
    \/ ReadSettings
    \/ RepoRoot
    \/ StageAll
    \/ GetStatus
    \/ GetStat
    \/ StagedDiff
    \/ ChatCompletion
    \/ ExtractAndPropose
    \/ Confirm
    \/ Commit
    \/ Push

Spec == Init /\ [][Next]_vars

(***************************************************************************)
(* The functions on their own: the inputs are drawn by the initial         *)
(* predicate and one step applies the function.                            *)
(***************************************************************************)
IdleArgs ==
    [yes |-> FALSE, push |-> FALSE, stage_all |-> FALSE,
     max_diff_chars |-> DefaultMaxDiffChars]

IdleSettings ==
    /\ base_url = <<>> /\ api_key = <<>> /\ model = <<>> /\ temperature = <<>>
    /\ status = <<>> /\ stat = <<>>
    /\ subject = <<>> /\ proposed = <<>> /\ ans = <<>>
    /\ calls = <<>>
    /\ exit_code = NoExit
    /\ error = ""

\* _load_env(env_path)
EnvAlphabet == {"A", "=", "v", "#", "\n", " ", "\""}
EnvKeys == {<<"A">>, <<"v">>}
EnvValues == {<<>>, <<"w">>}

SmallEnvs ==
    UNION {[present -> EnvValues] : present \in SUBSET EnvKeys}

InitLoadEnv ==
    /\ pc = "call_load_env"
    /\ args = IdleArgs
    /\ envfile \in {[exists |-> FALSE, text |-> <<>>]}
                   \cup {[exists |-> TRUE, text |-> t] :
                            t \in Texts(EnvAlphabet, MaxFileLen)}
    /\ environ \in SmallEnvs
    /\ environ0 = environ
    /\ raw_diff = <<>> /\ diff = <<>>
    /\ resp = NoResp
    /\ extracted = NotCalled
    /\ IdleSettings

CallLoadEnv ==
    /\ pc = "call_load_env"
    /\ environ' = LoadEnv(environ, envfile)
    /\ pc' = "returned"
    /\ UNCHANGED <<args, envfile, environ0, base_url, api_key, model,
                   temperature, status, stat, raw_diff, diff, resp, extracted,
                   subject, proposed, ans, calls, exit_code, error>>

SpecLoadEnv == InitLoadEnv /\ [][CallLoadEnv]_vars

\* _get_staged_diff(cwd, max_chars), given the stdout of git diff --cached
DiffAlphabet == {"d", " ", "\n"}

InitStagedDiff ==
    /\ pc = "call_get_staged_diff"
    /\ args \in [yes : {FALSE}, push : {FALSE}, stage_all : {FALSE},
                 max_diff_chars : (-2)..(MaxDiffLen + 1)]
    /\ envfile = [exists |-> FALSE, text |-> <<>>]
    /\ environ = NoVars
    /\ environ0 = environ
    /\ raw_diff \in Texts(DiffAlphabet, MaxDiffLen)
    /\ diff = <<>>
    /\ resp = NoResp
    /\ extracted = NotCalled
    /\ IdleSettings

CallGetStagedDiff ==
    /\ pc = "call_get_staged_diff"
    /\ diff' = GetStagedDiff(raw_diff, args.max_diff_chars)
    /\ pc' = "returned"
    /\ UNCHANGED <<args, envfile, environ, environ0, base_url, api_key, model,
                   temperature, status, stat, raw_diff, resp, extracted,
                   subject, proposed, ans, calls, exit_code, error>>

SpecStagedDiff == InitStagedDiff /\ [][CallGetStagedDiff]_vars

\* _extract_commit_subject(resp)
SubjectAlphabet == {"a", " ", "\n", "\"", "'"}

PadLens == {0} \cup ((MaxSubjectLen - PadSlack)..(MaxSubjectLen + PadSlack))

ExtractContents ==
    {pre \o Pad(c, n) \o post :
        pre \in Texts(SubjectAlphabet, MaxAffixLen),
        post \in Texts(SubjectAlphabet, MaxAffixLen),
        c \in {"a", " "},
        n \in PadLens}

InitExtract ==
    /\ pc = "call_extract_commit_subject"
    /\ args = IdleArgs
    /\ envfile = [exists |-> FALSE, text |-> <<>>]
    /\ environ = NoVars
    /\ environ0 = environ
    /\ raw_diff = <<>> /\ diff = <<>>
    /\ \E b \in MainBodies \cup {Body(JStr(t)) : t \in ExtractContents} :
          resp = [kind |-> "response", code |-> 200, parses |-> TRUE,
                  body |-> b]
    /\ extracted = NotCalled
    /\ IdleSettings

CallExtractCommitSubject ==
    /\ pc = "call_extract_commit_subject"
    /\ extracted' = ExtractCommitSubject(resp.body)
    /\ pc' = "returned"
    /\ UNCHANGED <<args, envfile, environ, environ0, base_url, api_key, model,
                   temperature, status, stat, raw_diff, diff, resp,
                   subject, proposed, ans, calls, exit_code, error>>

SpecExtract == InitExtract /\ [][CallExtractCommitSubject]_vars

(***************************************************************************)
(* Properties.                                                             *)
(***************************************************************************)
CallsOf(cmd) == {i \in 1..Len(calls) : calls[i].cmd = cmd}
Issued(cmd) == CallsOf(cmd) # {}
Succeeded(cmd) == \E i \in CallsOf(cmd) : calls[i].ok
NetworkCall == "POST /v1/chat/completions"
Quotes == {"\"", "'"}

\* the answer typed at the prompt, trimmed and lower-cased, is y or yes
SaidYes == ans # <<>> /\ Lower(Strip(ans[1], Whitespace)) \in Affirmative

\* the exchange delivered a decoded 2xx body
Delivered ==
    /\ resp.kind = "response"
    /\ 200 <= resp.code /\ resp.code < 300
    /\ resp.parses

\* the model text is blank: null, empty or only whitespace
BlankContent(body) ==
    \/ Content(body).type = "null"
    \/ Content(body).type = "str" /\ Strip(Content(body).s, Whitespace) = <<>>

\* the run got as far as committing: settings present, status and staged
\* diff non-empty, a subject extracted and proposed, confirmation passed
ReachesCommit ==
    /\ base_url # <<>> /\ api_key # <<>>
    /\ status # <<>>
    /\ Succeeded("git diff") /\ Strip(raw_diff, Whitespace) # <<>>
    /\ Delivered /\ HasContent(resp.body) /\ Content(resp.body).type = "str"
    /\ extracted.error = "" /\ extracted.text = ""
    /\ args.yes \/ SaidYes

\* C1 as stated: in a run with settings, non-empty status and staged diff,
\* a well-formed response and a confirmation that is skipped or affirmative,
\* exactly one git commit is issued with the proposed subject, git push is
\* issued exactly when --push is set, after the successful commit, and the
\* run exits 0.
C1_CommitsPushesAndExitsZero ==
    (pc = "done" /\ ReachesCommit) =>
        /\ Cardinality(CallsOf("git commit")) = 1
        /\ \A i \in CallsOf("git commit") : calls[i].arg = proposed
        /\ Issued("git push") <=> args.push
        /\ \A j \in CallsOf("git push") :
              \E i \in CallsOf("git commit") : i < j /\ calls[i].ok
        /\ exit_code = 0

\* C1 amended: in such a run exactly one git commit is issued with the
\* proposed subject; git push is issued exactly when --push is set and the
\* commit succeeded, and after it; the run exits 0 exactly when the commit
\* and the push (if --push) succeeded, and exits 1 otherwise.
C1_CommitThenPushUnlessGitFails ==
    (pc = "done" /\ ReachesCommit) =>
        /\ Cardinality(CallsOf("git commit")) = 1
        /\ \A i \in CallsOf("git commit") : calls[i].arg = proposed
        /\ Cardinality(CallsOf("git push")) <= 1
        /\ Issued("git push") <=> (args.push /\ Succeeded("git commit"))
        /\ \A j \in CallsOf("git push") :
              \E i \in CallsOf("git commit") : i < j /\ calls[i].ok
        /\ exit_code \in {0, 1}
        /\ exit_code = 0 <=>
              (Succeeded("git commit") /\ (args.push => Succeeded("git push")))

C1_Witness ==
    /\ pc = "done" /\ ReachesCommit
    /\ ~args.yes /\ args.push
    /\ Succeeded("git push")
    /\ exit_code = 0
    /\ proposed = <<"f", "i", "x">>

\* C2: when the prompt is shown and the answer, trimmed and lower-cased, is
\* not y or yes, the run exits 1 and neither git commit nor git push is
\* issued, with --push or without.
C2_DeclinedNeverCommits ==
    (ans # <<>> /\ ~SaidYes) =>
        /\ pc = "done"
        /\ exit_code = 1
        /\ ~Issued("git commit")
        /\ ~Issued("git push")

C2_Witness ==
    /\ ans = <<<<" ", "y", "e">>>>
    /\ ~args.yes /\ args.push
    /\ pc = "done"

\* C3: when the message requester fails (non-2xx status, no
\* choices[0].message.content in the body, or blank model text) the run is
\* over with a non-zero exit, the request was issued once, and no git commit
\* and no git push is issued.
RequesterFailed ==
    /\ resp.kind = "response"
    /\ \/ ~(200 <= resp.code /\ resp.code < 300)
       \/ /\ Delivered
          /\ pc # "extract"
          /\ ~HasContent(resp.body) \/ BlankContent(resp.body)

C3_RequesterFailureAborts ==
    RequesterFailed =>
        /\ pc = "done"
        /\ exit_code >= 1
        /\ Cardinality(CallsOf(NetworkCall)) = 1
        /\ ~Issued("git commit")
        /\ ~Issued("git push")

C3_Witness ==
    /\ RequesterFailed
    /\ resp.code = 401
    /\ args.yes /\ args.push
    /\ error = "RuntimeError"

\* C4: the subject returned by _extract_commit_subject, and so the message
\* of git commit, is never empty: either a non-empty single line of at most
\* 120 characters is returned, or the extraction fails with the
\* empty-message error and nothing is committed.
C4_SubjectNeverEmpty ==
    /\ (extracted.error = "" /\ extracted.text = "") =>
          /\ extracted.subject # <<>>
          /\ Len(extracted.subject) <= MaxSubjectLen
          /\ \A i \in 1..Len(extracted.subject) :
                extracted.subject[i] \notin LineBreaks
    /\ (extracted.error # "" /\ HasContent(resp.body)) =>
          /\ extracted.text = "AI returned an empty commit message."
          /\ ~Issued("git commit")
    /\ \A i \in CallsOf("git commit") : calls[i].arg # <<>>

\* C5: for a response whose choices[0].message.content is a string, the
\* returned subject is the first line of the content with surrounding
\* whitespace and quote characters stripped, capped at 120 characters, and
\* it neither starts nor ends with whitespace or a quote character.
FirstLine(s) == IF SplitLines(s) = <<>> THEN <<>> ELSE SplitLines(s)[1]

C5_SubjectIsCleanFirstLine ==
    (/\ pc = "returned"
     /\ HasContent(resp.body) /\ Content(resp.body).type = "str"
     /\ extracted.error = "") =>
        /\ extracted.subject # <<>>
        /\ Head(extracted.subject) \notin Whitespace \cup Quotes
        /\ extracted.subject[Len(extracted.subject)] \notin Whitespace \cup Quotes
        /\ extracted.subject =
              Slice(Strip(FirstLine(Strip(Content(resp.body).s, Whitespace)),
                          Whitespace \cup Quotes),
                    MaxSubjectLen)

\* C6: after _load_env every key that was in the environment before the call
\* still has its original value, and a missing file changes nothing.
C6_FileNeverOverrides ==
    /\ \A k \in DOMAIN environ0 : k \in DOMAIN environ /\ environ[k] = environ0[k]
    /\ ~envfile.exists => environ = environ0

\* the file assigns another value to a key that was present, and adds a key
C6_Witness ==
    /\ pc = "returned"
    /\ envfile.exists
    /\ DOMAIN environ # DOMAIN environ0
    /\ \E k \in DOMAIN environ0 :
          \E i \in 1..Len(SplitLines(envfile.text)) :
             LET set == LoadEnvLine(NoVars, SplitLines(envfile.text)[i])
             IN  k \in DOMAIN set /\ set[k] # environ0[k]

\* C7: a diff shorter than the maximum m comes back unchanged; a diff longer
\* than m comes back as its first m characters followed by the marker.
C7_TruncatesToFirstMaxChars ==
    pc = "returned" =>
        LET m == args.max_diff_chars IN
        /\ Len(raw_diff) < m => diff = raw_diff
        /\ Len(raw_diff) > m =>
              /\ m >= 0
              /\ diff = SubSeq(raw_diff, 1, m) \o TruncationMarker

\* C8: when git status is empty after trimming, the run exits 0 and no
\* network call, git commit or git push is issued, whatever the flags.
C8_CleanTreeShortCircuits ==
    (Succeeded("git status") /\ status = <<>>) =>
        /\ pc = "done"
        /\ exit_code = 0
        /\ ~Issued(NetworkCall)
        /\ ~Issued("git commit")
        /\ ~Issued("git push")

C8_Witness ==
    /\ Succeeded("git status") /\ status = <<>>
    /\ args.yes /\ args.push /\ args.stage_all
    /\ pc = "done"

\* C9: when AI_BASE_URL or AI_API_KEY is absent or blank after the config
\* file is loaded, the process exits 2 without any subprocess or network
\* call, whatever AI_MODEL, AI_TEMPERATURE and the flags are.
C9_MissingCredentialsExitTwo ==
    (/\ pc \notin {"load_env", "settings"}
     /\ \/ Strip(EnvGet(environ, AI_BASE_URL, <<>>), Whitespace) = <<>>
        \/ Strip(EnvGet(environ, AI_API_KEY, <<>>), Whitespace) = <<>>) =>
        /\ pc = "done"
        /\ exit_code = 2
        /\ calls = <<>>

\* C10: when status is non-empty and git diff --cached prints nothing or
\* only whitespace, the run exits 2 with no network call and no commit, for
\* every --max-diff-chars.
C10_NothingStagedExitsTwo ==
    (/\ status # <<>>
     /\ Succeeded("git diff")
     /\ Strip(raw_diff, Whitespace) = <<>>) =>
        /\ pc = "done"
        /\ exit_code = 2
        /\ ~Issued(NetworkCall)
        /\ ~Issued("git commit")

====
